---- MODULE Spec2Model ----
(***************************************************************************)
(* Session execution engine of adk-agent-sim: the SimulationSession state  *)
(* machine, the ToolRunner engine, the history log and the                 *)
(* SimulationController that ties them together.                           *)
(*                                                                         *)
(* The controller is shared by every page of the application and its       *)
(* coroutines suspend at each real `await`; between a suspension and its   *)
(* resumption any other handler of the event loop may run.  A controller   *)
(* coroutine that suspends is a task of the model, and each of its         *)
(* uninterrupted segments is one action.                                   *)
(*                                                                         *)
(* Abstractions: wall-clock values (entry timestamps, start_timestamp,     *)
(* _start_time) are left out and a duration is a value a clock could have  *)
(* produced; uuid4 tokens are fresh numbers.                               *)
(***************************************************************************)
EXTENDS Integers, Sequences, FiniteSets, TLC

\* ------------------------------------------------------------------ bounds
\* MaxWork bounds how much is started in one behaviour: sessions created,
\* select_agent calls that reach the tool provider, tool invocations begun
\* and direct calls of the session's methods, taken together.
MaxWork == 4
MaxTasks == 2
\* The longest history given to the exporter directly.
MaxHistory == 3

\* --------------------------------------------------------------- the state
VARIABLES
  sessions,           \* every SimulationSession constructed so far, by identity
  nsessions,          \* how many sessions have been constructed
  session,            \* SimulationController._session: 0 is None, else an identity
  tool_declarations,  \* SimulationController._tool_declarations (its keys)
  is_running,         \* ToolRunner._is_running
  current_task,       \* ToolRunner._current_task: 0 is None, else a task
  tasks,              \* the suspended controller coroutines
  nselects,           \* how many select_agent calls reached canonical_tools()
  next_call_id,       \* the next fresh uuid4 token
  ndirect,            \* entries appended through the session API directly
  last,               \* what the execute_tool that ended most recently returned
  exported            \* the document export_trace produced last, if any

vars == <<sessions, nsessions, session, tool_declarations, is_running,
          current_task, tasks, next_call_id, ndirect, last, exported, nselects>>

\* -------------------------------------------------------------- SessionState
SELECTING_AGENT == "selecting_agent"
AWAITING_QUERY == "awaiting_query"
ACTIVE == "active"
COMPLETED == "completed"
SessionState == {SELECTING_AGENT, AWAITING_QUERY, ACTIVE, COMPLETED}

None == "None"

\* ------------------------------------------------- the controller's agents
\* A tool handle: its name and whether _get_declaration() yields a declaration.
Tool(n, d) == [name |-> n, decl |-> d, is_none |-> FALSE]

AgentNames == {"Calc", "Db"}

\* agent.canonical_tools() of each agent of the dict given to the controller.
canonical_tools(a) ==
  IF a = "Calc" THEN <<Tool("add", TRUE)>> ELSE <<Tool("query", FALSE)>>

\* ------------------------------------------------------- the callers' inputs
AgentInputs == {"Calc", "Db", "Nope"}
ToolInputs == {"add", "Add", "missing_tool"}
Arguments == {"{a:2,b:3}"}
TextInput(s) == [kind |-> "str", text |-> s]
StructInput(s) == [kind |-> "dict", text |-> s]
Queries == {StructInput("q")}
Responses == {TextInput("5")}

\* What a tool's run_async can do: return a value or raise.
Value(t, v) == [ty |-> t, v |-> v]
Results == {Value("int", "5")}
Exc(t, m) == [type |-> t, msg |-> m]
Exceptions == {Exc("ValueError", "bad arg"), Exc("RuntimeError", "")}
ContextFailures == {Exc("ValueError", "bad arg")}
Durations == {50}

\* ------------------------------------------------------------ history.py
UserQuery(c) == [type |-> "user_query", content |-> c]
ToolCall(n, a, id) ==
  [type |-> "tool_call", tool_name |-> n, arguments |-> a, call_id |-> id]
ToolOutput(id, r, d) ==
  [type |-> "tool_output", call_id |-> id, result |-> r, duration_ms |-> d]
ToolError(id, et, em, tb, d) ==
  [type |-> "tool_error", call_id |-> id, error_type |-> et,
   error_message |-> em, traceback |-> tb, duration_ms |-> d]
FinalResponse(c) == [type |-> "final_response", content |-> c]

\* ------------------------------------------------------------ session.py
\* SimulationSession(): the field defaults.
NewSession(id) ==
  [session_id |-> id, agent_name |-> "", agent |-> None, tools |-> <<>>,
   state |-> SELECTING_AGENT, history |-> <<>>,
   adk_session |-> 0, adk_session_service |-> None]

\* (an add_history_entry that puts the entry at the front of the list)
add_history_entry_at_front(s, entry) == [s EXCEPT !.history = <<entry>> \o @]
add_history_entry(s, entry) == [s EXCEPT !.history = Append(@, entry)]

\* (a select_agent that is also accepted before the query is given)
CanSelectAgent_until_started(s) ==
  s.state \in {SELECTING_AGENT, AWAITING_QUERY}
CanSelectAgent(s) == s.state = SELECTING_AGENT
select_agent(s, name, agent, tools) ==
  [s EXCEPT !.agent_name = name, !.agent = agent, !.tools = tools,
            !.state = AWAITING_QUERY]

CanStartSession(s) == s.state = AWAITING_QUERY
start_session(s) == [s EXCEPT !.state = ACTIVE]

\* (a complete_session that does not check the state)
CanCompleteSession_unchecked(s) == TRUE
CanCompleteSession(s) == s.state = ACTIVE
\* (a complete_session that leaves the state as it is)
complete_session_without_transition(s) == s
complete_session(s) == [s EXCEPT !.state = COMPLETED]

\* The first tool of the list whose name is exactly `name`, else None.
NoTool == [name |-> "", decl |-> FALSE, is_none |-> TRUE]
RECURSIVE get_tool_from(_, _, _)
get_tool_from(tools, name, i) ==
  IF i > Len(tools) THEN NoTool
  ELSE IF tools[i].name = name THEN tools[i]
  ELSE get_tool_from(tools, name, i + 1)
\* (a lookup that ignores the case of the requested name)
Lower(name) == IF name = "Add" THEN "add" ELSE name
get_tool_by_name_ignoring_case(s, name) == get_tool_from(s.tools, Lower(name), 1)
get_tool_by_name(s, name) == get_tool_from(s.tools, name, 1)

\* ---------------------------------------------------------- tool_runner.py
NoneValue == Value("none", "")
NoResult == [success |-> FALSE, result |-> NoneValue, error_type |-> None,
             error_message |-> None, error_traceback |-> None,
             duration_ms |-> 0, cancelled |-> FALSE, none |-> TRUE]

\* ExecutionResult(success=True, result=..., duration_ms=...)
SuccessResult(r, d) ==
  [success |-> TRUE, result |-> r, error_type |-> None,
   error_message |-> None, error_traceback |-> None,
   duration_ms |-> d, cancelled |-> FALSE, none |-> FALSE]

\* the except asyncio.CancelledError branch
CancelledResult(d) ==
  [success |-> FALSE, result |-> NoneValue, error_type |-> None,
   error_message |-> "Tool execution was cancelled",
   error_traceback |-> None, duration_ms |-> d, cancelled |-> TRUE,
   none |-> FALSE]

\* the except Exception branch: type(e).__name__, str(e), format_exc()
FailureResult(e, d) ==
  [success |-> FALSE, result |-> NoneValue, error_type |-> e.type,
   error_message |-> e.msg, error_traceback |-> "Traceback",
   duration_ms |-> d, cancelled |-> FALSE, none |-> FALSE]

\* What awaiting tool.run_async (or the context setup) can end in.
NoExc == Exc("", "")
ToolReturn(r) == [kind |-> "return", value |-> r, exc |-> NoExc]
ToolRaise(e) == [kind |-> "raise", value |-> NoneValue, exc |-> e]
ToolCancelled == [kind |-> "cancelled", value |-> NoneValue, exc |-> NoExc]

\* The try/except of ToolRunner.execute: which ExecutionResult each ending
\* is turned into, and whether anything escapes to the caller.
Returned(r) == [raised |-> FALSE, result |-> r]
Propagated == [raised |-> TRUE, result |-> NoResult]
\* (an execute whose only handler is `except Exception`, which does not
\* catch CancelledError)
execute_result_without_cancel_handler(ending, d) ==
  IF ending.kind = "return" THEN Returned(SuccessResult(ending.value, d))
  ELSE IF ending.kind = "cancelled" THEN Propagated
  ELSE Returned(FailureResult(ending.exc, d))
execute_result(ending, d) ==
  IF ending.kind = "return" THEN Returned(SuccessResult(ending.value, d))
  ELSE IF ending.kind = "cancelled" THEN Returned(CancelledResult(d))
  ELSE Returned(FailureResult(ending.exc, d))

\* ------------------------------------------------------------ controller.py
\* `x if isinstance(x, str) else str(x)`
Content(input) ==
  IF input.kind = "str" THEN input.text ELSE "{'v': '" \o input.text \o "'}"

\* `x or default` on an optional string: None and "" are both falsy.
\* (an `or` that replaces only a missing value)
OrDefault_for_None_only(x, default) == IF x = None THEN default ELSE x
OrDefault(x, default) == IF x = None \/ x = "" THEN default ELSE x

\* The history entry execute_tool records for a result.
\* (a recording that lets the entry mint a call_id of its own)
ResultEntry_with_own_call_id(call_id, result) ==
  IF result.success
  THEN ToolOutput(0, result.result, result.duration_ms)
  ELSE ToolError(0,
                 OrDefault(result.error_type, "Unknown"),
                 OrDefault(result.error_message, "Unknown error"),
                 result.error_traceback, result.duration_ms)
ResultEntry(call_id, result) ==
  IF result.success
  THEN ToolOutput(call_id, result.result, result.duration_ms)
  ELSE ToolError(call_id,
                 OrDefault(result.error_type, "Unknown"),
                 OrDefault(result.error_message, "Unknown error"),
                 result.error_traceback, result.duration_ms)

\* --------------------------------------------------------- golden_trace.py
\* The values a tool can have returned, by Python type: (type, repr).
\* "model" has a model_dump() that works, "badmodel" one that raises,
\* "object" has none.
ScalarTypes == {"str", "int", "float", "bool"}
ExportValues ==
  {NoneValue, Value("dict", "{k: 1}"), Value("str", "ok"), Value("int", "5"),
   Value("float", "0.5"), Value("bool", "True"), Value("list", "[1, 2]"),
   Value("tuple", "(1, 2)"), Value("model", "M(x=1)"),
   Value("badmodel", "B(x=1)"), Value("object", "<Obj>")}

\* list(result), result.model_dump() and str(result) on those values.
AsList(r) ==
  IF r.ty = "tuple" THEN Value("list", "[1, 2]") ELSE Value("list", r.v)
ModelDump(r) == Value("dict", "{x: 1}")
Str(r) == Value("str", r.v)

\* A FunctionResponse.response payload: the dict itself, or {"result": v}.
\* (a dict put under the "result" key like any other value)
TheDict_under_result_key(d) == [wrapped |-> TRUE, value |-> d]
TheDict(d) == [wrapped |-> FALSE, value |-> d]
Wrapped(v) == [wrapped |-> TRUE, value |-> v]

\* _serialize_result: the rules in the order the code tries them.
\* (the rules without the one for list and tuple)
serialize_result_without_sequence_rule(r) ==
  IF r.ty = "none" THEN Wrapped(NoneValue)
  ELSE IF r.ty = "dict" THEN TheDict(r)
  ELSE IF r.ty \in ScalarTypes THEN Wrapped(r)
  ELSE IF r.ty = "model" THEN TheDict(ModelDump(r))
  ELSE Wrapped(Str(r))
serialize_result(r) ==
  IF r.ty = "none" THEN Wrapped(NoneValue)
  ELSE IF r.ty = "dict" THEN TheDict(r)
  ELSE IF r.ty \in ScalarTypes THEN Wrapped(r)
  ELSE IF r.ty \in {"list", "tuple"} THEN Wrapped(AsList(r))
  ELSE IF r.ty = "model" THEN TheDict(ModelDump(r))
  ELSE Wrapped(Str(r))

\* Content(role=..., parts=[Part(text=...)])
Message(role, text) == [role |-> role, parts |-> <<[text |-> text]>>]

\* _extract_user_query: the first UserQuery from the front.
RECURSIVE user_query_from(_, _)
user_query_from(h, i) ==
  IF i > Len(h) THEN Message("user", "")
  ELSE IF h[i].type = "user_query" THEN Message("user", h[i].content)
  ELSE user_query_from(h, i + 1)
extract_user_query(h) == user_query_from(h, 1)

\* _extract_final_response: the first FinalResponse from the back.
RECURSIVE final_response_from(_, _)
final_response_from(h, i) ==
  IF i < 1 THEN Message("model", "")
  ELSE IF h[i].type = "final_response" THEN Message("model", h[i].content)
  ELSE final_response_from(h, i - 1)
\* (a scan that starts at the front of the history)
RECURSIVE final_response_from_front(_, _)
final_response_from_front(h, i) ==
  IF i > Len(h) THEN Message("model", "")
  ELSE IF h[i].type = "final_response" THEN Message("model", h[i].content)
  ELSE final_response_from_front(h, i + 1)
extract_final_response_first(h) == final_response_from_front(h, 1)
extract_final_response(h) == final_response_from(h, Len(h))

\* FunctionCall / FunctionResponse records, and the error payload: the
\* traceback key is set only when entry.traceback is truthy.
FunctionCall(id, name, args) == [id |-> id, name |-> name, args |-> args]
FunctionResponse(id, name, response) ==
  [id |-> id, name |-> name, response |-> response]
Truthy(x) == x # None /\ x # ""
ErrorResponse(entry) ==
  [error |-> TRUE, error_type |-> entry.error_type,
   error_message |-> entry.error_message,
   has_traceback |-> Truthy(entry.traceback),
   traceback |-> IF Truthy(entry.traceback) THEN entry.traceback ELSE None]

\* _extract_tool_data: one forward pass with the call_id -> tool_name map.
NoToolData ==
  [tool_uses |-> <<>>, tool_responses |-> <<>>,
   call_id_to_name |-> [id \in {} |-> ""]]
NameOf(acc, id) ==
  IF id \in DOMAIN acc.call_id_to_name THEN acc.call_id_to_name[id]
  ELSE "unknown"
\* (a pass that keeps only the newest use record)
ToolDataStepKeepingLastUse(acc, e) ==
  IF e.type = "tool_call"
  THEN [acc EXCEPT
          !.tool_uses = <<FunctionCall(e.call_id, e.tool_name, e.arguments)>>]
  ELSE acc
ToolDataStep(acc, e) ==
  IF e.type = "tool_call"
  THEN [acc EXCEPT
          !.call_id_to_name =
             [id \in DOMAIN @ \cup {e.call_id} |->
                IF id = e.call_id THEN e.tool_name ELSE @[id]],
          !.tool_uses =
             Append(@, FunctionCall(e.call_id, e.tool_name, e.arguments))]
  ELSE IF e.type = "tool_output"
  THEN [acc EXCEPT !.tool_responses =
          Append(@, FunctionResponse(e.call_id, NameOf(acc, e.call_id),
                                     serialize_result(e.result)))]
  ELSE IF e.type = "tool_error"
  THEN [acc EXCEPT !.tool_responses =
          Append(@, FunctionResponse(e.call_id, NameOf(acc, e.call_id),
                                     ErrorResponse(e)))]
  ELSE acc
RECURSIVE tool_data_from(_, _, _)
tool_data_from(h, i, acc) ==
  IF i > Len(h) THEN acc
  ELSE tool_data_from(h, i + 1, ToolDataStep(acc, h[i]))
extract_tool_data(h) == tool_data_from(h, 1, NoToolData)

\* build(): the Invocation of the EvalCase (eval_id and creation_timestamp
\* are left out); intermediate_data is None when both lists are empty.
build(s) ==
  LET data == extract_tool_data(s.history)
  IN [invocation_id |-> s.session_id,
      user_content |-> extract_user_query(s.history),
      final_response |-> extract_final_response(s.history),
      tool_uses |-> data.tool_uses,
      tool_responses |-> data.tool_responses,
      has_intermediate_data |->
        data.tool_uses # <<>> \/ data.tool_responses # <<>>]

\* What export_trace has produced last: nothing yet, or a document.
NoDocument ==
  [none |-> TRUE, session_id |-> 0, document |-> build(NewSession(0))]
Document(s) ==
  [none |-> FALSE, session_id |-> s.session_id, document |-> build(s)]

\* ------------------------------------------------------------------- tasks
IdleTask == [pc |-> "idle", op |-> None, sess |-> 0, agent_name |-> None,
             tool |-> NoTool, arguments |-> None, call_id |-> 0,
             cancel_req |-> FALSE]
Tasks == 1 .. MaxTasks
\* A coroutine that suspends becomes the first task not in use.
FreeTask(t) ==
  /\ tasks[t].pc = "idle"
  /\ \A u \in 1 .. (t - 1) : tasks[u].pc # "idle"
Sessions == 1 .. MaxWork

\* How the execute_tool that ended most recently ended: "returned" with its
\* ExecutionResult, or "raised"; and the call_id it had minted.
Ended(kind, result, call_id) ==
  [kind |-> kind, result |-> result, call_id |-> call_id]

Work == nsessions + nselects + (next_call_id - 1) + ndirect

Init ==
  /\ sessions = [i \in Sessions |-> NewSession(i)]
  /\ nsessions = 0
  /\ session = 0
  /\ tool_declarations = {}
  /\ is_running = FALSE
  /\ current_task = 0
  /\ tasks = [t \in Tasks |-> IdleTask]
  /\ next_call_id = 1
  /\ ndirect = 0
  /\ last = Ended(None, NoResult, 0)
  /\ exported = NoDocument
  /\ nselects = 0

\* -------------------------------------------------- SimulationController
create_session ==
  /\ Work < MaxWork
  /\ nsessions' = nsessions + 1
  /\ session' = nsessions + 1
  /\ tool_declarations' = {}
  /\ UNCHANGED <<sessions, is_running, current_task, tasks, next_call_id,
                 ndirect, last, exported, nselects>>

\* _tool_declarations after the caching loop: the tools that yield one.
Declarations(tools) ==
  {tools[i].name : i \in {j \in 1 .. Len(tools) : tools[j].decl}}

\* The controller's own state checks.
\* (a start_session that leaves the check to the session)
StartAllowed_unchecked(s) == TRUE
StartAllowed(s) == s.state = AWAITING_QUERY
ActiveRequired(s) == s.state = ACTIVE
\* (a check that also lets an ACTIVE session through)
ExportAllowed_once_started(s) == s.state \in {ACTIVE, COMPLETED}
ExportAllowed(s) == s.state = COMPLETED

\* What the message of a state error names: the state the operation
\* requires and the session's state, None for what the text leaves out.
StateError(required, actual) == [required |-> required, actual |-> actual]
\* session.py: "Cannot ... from state {state}. Must be in ... state."
SelectAgentStateError(s) == StateError(SELECTING_AGENT, s.state)
SessionStartStateError(s) == StateError(AWAITING_QUERY, s.state)
SessionCompleteStateError(s) == StateError(ACTIVE, s.state)
\* controller.py: "Session not in AWAITING_QUERY state (current: {state})",
\* "Session not in ACTIVE state" (twice), "Session not completed".
StartSessionStateError(s) == StateError(AWAITING_QUERY, s.state)
ExecuteToolStateError(s) == StateError(ACTIVE, None)
SubmitFinalResponseStateError(s) == StateError(ACTIVE, None)
ExportTraceStateError(s) == StateError(COMPLETED, None)

\* How each call ends, from the raise statements of its code in order.  A
\* call that suspends is "pending" until it is resumed.
SelectAgentCallOutcome(agent_name) ==
  IF session = 0 THEN "NoSession"
  ELSE IF agent_name \notin AgentNames THEN "NotFound"
  ELSE "pending"

SelectAgentResumeOutcome(provider_ok) ==
  IF ~provider_ok THEN "ProviderError"
  ELSE IF ~CanSelectAgent(sessions[session]) THEN "StateViolation"
  ELSE "ok"

StartSessionOutcome(user_query) ==
  IF session = 0 THEN "NoSession"
  ELSE IF ~StartAllowed(sessions[session]) THEN "StateViolation"
  ELSE IF ~CanStartSession(sessions[session]) THEN "StateViolation"
  ELSE "ok"

ExecuteToolCallOutcome(tool_name) ==
  IF session = 0 THEN "NoSession"
  ELSE IF ~ActiveRequired(sessions[session]) THEN "StateViolation"
  ELSE IF get_tool_by_name(sessions[session], tool_name).is_none
  THEN "NotFound"
  ELSE "pending"

SubmitFinalResponseOutcome(response) ==
  IF session = 0 THEN "NoSession"
  ELSE IF ~ActiveRequired(sessions[session]) THEN "StateViolation"
  ELSE IF ~CanCompleteSession(sessions[session]) THEN "StateViolation"
  ELSE "ok"

ExportTraceOutcome ==
  IF session = 0 THEN "NoSession"
  ELSE IF ~ExportAllowed(sessions[session]) THEN "StateViolation"
  ELSE "ok"

\* select_agent up to `await agent.canonical_tools()`.
SelectAgentCall(t, agent_name) ==
  /\ FreeTask(t)
  /\ IF SelectAgentCallOutcome(agent_name) = "pending"
     THEN /\ Work < MaxWork
          /\ nselects' = nselects + 1
          /\ tasks' = [tasks EXCEPT ![t] =
            [IdleTask EXCEPT !.pc = "tools", !.op = "select_agent",
                             !.agent_name = agent_name]]
     ELSE UNCHANGED <<tasks, nselects>>
  /\ UNCHANGED <<sessions, nsessions, session, tool_declarations, is_running,
                 current_task, next_call_id, ndirect, last, exported>>

\* select_agent from the return of canonical_tools() on; the provider may
\* raise instead of returning the tools.
SelectAgentResume(t, provider_ok) ==
  /\ tasks[t].pc = "tools"
  /\ tasks' = [tasks EXCEPT ![t] = IdleTask]
  /\ IF ~provider_ok
     THEN UNCHANGED <<sessions, tool_declarations>>
     ELSE LET name == tasks[t].agent_name
              tools == canonical_tools(name)
          IN /\ tool_declarations' = Declarations(tools)
             /\ IF CanSelectAgent(sessions[session])
                THEN sessions' = [sessions EXCEPT ![session] =
                                    select_agent(@, name, name, tools)]
                ELSE UNCHANGED sessions
  /\ UNCHANGED <<nsessions, session, is_running, current_task, next_call_id,
                 ndirect, last, exported, nselects>>

\* start_session: the controller's check, the UserQuery, then the session's
\* own transition (which checks again).
StartSession(user_query) ==
  /\ IF session = 0 \/ ~StartAllowed(sessions[session])
     THEN UNCHANGED sessions
     ELSE LET s1 == add_history_entry(sessions[session],
                                      UserQuery(Content(user_query)))
          IN sessions' = [sessions EXCEPT ![session] =
               IF CanStartSession(s1) THEN start_session(s1) ELSE s1]
  /\ UNCHANGED <<nsessions, session, tool_declarations, is_running,
                 current_task, tasks, next_call_id, ndirect, last, exported,
                 nselects>>

submit_final_response(response) ==
  /\ IF session = 0 \/ ~ActiveRequired(sessions[session])
     THEN UNCHANGED sessions
     ELSE LET s1 == add_history_entry(sessions[session],
                                      FinalResponse(Content(response)))
          IN sessions' = [sessions EXCEPT ![session] =
               IF CanCompleteSession(s1) THEN complete_session(s1) ELSE s1]
  /\ UNCHANGED <<nsessions, session, tool_declarations, is_running,
                 current_task, tasks, next_call_id, ndirect, last, exported,
                 nselects>>

\* export_trace: the two checks, then GoldenTraceBuilder(session).build()
\* and export_json, which writes the EvalCase's fields out.
export_trace ==
  /\ exported' = IF ExportTraceOutcome = "ok"
                 THEN Document(sessions[session]) ELSE exported
  /\ UNCHANGED <<sessions, nsessions, session, tool_declarations, is_running,
                 current_task, tasks, next_call_id, ndirect, last, nselects>>

\* The session execute_tool records the result in: `self._session`, read
\* again after the await.
RecordingSession(t) == session

\* execute_tool from the end of the awaited call on: the except clauses and
\* the finally of ToolRunner.execute, then the recording of the result.
\* `ss` is the sessions as the engine left them.
\* The finally clause: _is_running after an invocation that ended in `ending`.
\* (a reset that only the success path performs)
FinallyIsRunning_on_success_only(ending) == ending.kind # "return"
FinallyIsRunning(ending) == FALSE
\* The finally clause: _current_task after that invocation.
\* (a reset that only the success path performs)
FinallyCurrentTask_on_success_only(ending) ==
  IF ending.kind = "return" THEN 0 ELSE current_task
FinallyCurrentTask(ending) == 0

Finish(t, call_id, ending, d, ss) ==
  LET er == execute_result(ending, d)
  IN /\ is_running' = FinallyIsRunning(ending)
     /\ current_task' = FinallyCurrentTask(ending)
     /\ tasks' = [tasks EXCEPT ![t] = IdleTask]
     /\ IF er.raised
        THEN /\ sessions' = ss
             /\ last' = Ended("raised", NoResult, call_id)
        ELSE /\ sessions' = [ss EXCEPT ![RecordingSession(t)] =
                    add_history_entry(@, ResultEntry(call_id, er.result))]
             /\ last' = Ended("returned", er.result, call_id)

\* execute_tool up to its first suspension.  `setup` is what building the
\* tool context does when ensure_adk_session has nothing to await: NoExc,
\* or the exception it raises.
ExecuteToolCall(t, tool_name, arguments, setup, d) ==
  /\ FreeTask(t)
  /\ IF ExecuteToolCallOutcome(tool_name) # "pending"
     THEN UNCHANGED <<sessions, is_running, current_task, tasks,
                      next_call_id, last, nselects>>
     ELSE LET tool == get_tool_by_name(sessions[session], tool_name)
              call_id == next_call_id
              ss == [sessions EXCEPT ![session] =
                       add_history_entry(@, ToolCall(tool_name, arguments,
                                                     call_id))]
              task == [IdleTask EXCEPT !.op = "execute_tool",
                                       !.sess = session, !.tool = tool,
                                       !.arguments = arguments,
                                       !.call_id = call_id]
          IN /\ Work < MaxWork
             /\ next_call_id' = next_call_id + 1
             /\ IF sessions[session].adk_session = 0
                THEN \* suspended in ensure_adk_session
                     /\ sessions' = ss
                     /\ is_running' = TRUE
                     /\ tasks' = [tasks EXCEPT ![t] = [task EXCEPT !.pc = "ctx"]]
                     /\ UNCHANGED <<current_task, last>>
                ELSE IF setup # NoExc
                THEN Finish(t, call_id, ToolRaise(setup), d, ss)
                ELSE \* suspended in tool.run_async
                     /\ sessions' = ss
                     /\ is_running' = TRUE
                     /\ current_task' = t
                     /\ tasks' = [tasks EXCEPT ![t] = [task EXCEPT !.pc = "run"]]
                     /\ UNCHANGED last
  /\ UNCHANGED <<nsessions, session, tool_declarations, ndirect, exported,
                 nselects>>

\* ensure_adk_session from the return of InMemorySessionService.create_session
\* on, then create_tool_context; `created` and `setup` are NoExc or what
\* the awaited creation, respectively the context construction, raises.
ExecuteCtxResume(t, created, setup, d) ==
  /\ tasks[t].pc = "ctx"
  /\ LET call_id == tasks[t].call_id
         ss == [sessions EXCEPT ![tasks[t].sess].adk_session = call_id]
     IN IF created # NoExc
        THEN Finish(t, call_id, ToolRaise(created), d, sessions)
        ELSE IF setup # NoExc
        THEN Finish(t, call_id, ToolRaise(setup), d, ss)
        ELSE /\ sessions' = ss
             /\ current_task' = t
             /\ tasks' = [tasks EXCEPT ![t].pc = "run"]
             /\ UNCHANGED <<is_running, last>>
  /\ UNCHANGED <<nsessions, session, tool_declarations, next_call_id, ndirect,
                 exported, nselects>>

\* How awaiting tool.run_async can end for task t: the tool returns or raises,
\* or, once the task's cancellation was requested, CancelledError is raised.
Endings(t) ==
  {ToolReturn(r) : r \in Results} \cup {ToolRaise(e) : e \in Exceptions}
    \cup (IF tasks[t].cancel_req THEN {ToolCancelled} ELSE {})

ExecuteRunResume(t, ending, d) ==
  /\ tasks[t].pc = "run"
  /\ ending \in Endings(t)
  /\ Finish(t, tasks[t].call_id, ending, d, sessions)
  /\ UNCHANGED <<nsessions, session, tool_declarations, next_call_id, ndirect,
                 exported, nselects>>

\* ToolRunner.cancel, through SimulationController.cancel_tool.
cancel_tool ==
  /\ IF current_task # 0
     THEN tasks' = [tasks EXCEPT ![current_task].cancel_req = TRUE]
     ELSE UNCHANGED tasks
  /\ UNCHANGED <<sessions, nsessions, session, tool_declarations, is_running,
                 current_task, next_call_id, ndirect, last, exported, nselects>>

\* ------------------------------ the session's methods, called directly
Constructed == 1 .. nsessions

DirectSelectAgent(i, name) ==
  /\ i \in Constructed
  /\ CanSelectAgent(sessions[i]) => Work < MaxWork
  /\ IF CanSelectAgent(sessions[i])
     THEN /\ sessions' = [sessions EXCEPT ![i] =
                select_agent(@, name, name, canonical_tools(name))]
          /\ ndirect' = ndirect + 1
     ELSE UNCHANGED <<sessions, ndirect>>
  /\ UNCHANGED <<nsessions, session, tool_declarations, is_running,
                 current_task, tasks, next_call_id, last, exported, nselects>>

DirectStartSession(i) ==
  /\ i \in Constructed
  /\ CanStartSession(sessions[i]) => Work < MaxWork
  /\ IF CanStartSession(sessions[i])
     THEN /\ sessions' = [sessions EXCEPT ![i] =
                start_session(@)]
          /\ ndirect' = ndirect + 1
     ELSE UNCHANGED <<sessions, ndirect>>
  /\ UNCHANGED <<nsessions, session, tool_declarations, is_running,
                 current_task, tasks, next_call_id, last, exported, nselects>>

DirectCompleteSession(i) ==
  /\ i \in Constructed
  /\ CanCompleteSession(sessions[i]) => Work < MaxWork
  /\ IF CanCompleteSession(sessions[i])
     THEN /\ sessions' = [sessions EXCEPT ![i] =
                complete_session(@)]
          /\ ndirect' = ndirect + 1
     ELSE UNCHANGED <<sessions, ndirect>>
  /\ UNCHANGED <<nsessions, session, tool_declarations, is_running,
                 current_task, tasks, next_call_id, last, exported, nselects>>

DirectEntries == {FinalResponse("y")}

DirectAddHistoryEntry(i, entry) ==
  /\ i \in Constructed
  /\ Work < MaxWork
  /\ ndirect' = ndirect + 1
  /\ sessions' = [sessions EXCEPT ![i] = add_history_entry(@, entry)]
  /\ UNCHANGED <<nsessions, session, tool_declarations, is_running,
                 current_task, tasks, next_call_id, last, exported, nselects>>

\* --------------------------------------------------------- specifications
Setups == {NoExc} \cup ContextFailures

\* Everything a caller of the controller can do to its current session.
Calls ==
  \/ \E t \in Tasks, a \in AgentInputs : SelectAgentCall(t, a)
  \/ \E t \in Tasks, ok \in BOOLEAN : SelectAgentResume(t, ok)
  \/ \E q \in Queries : StartSession(q)
  \/ \E t \in Tasks, n \in ToolInputs, a \in Arguments, x \in Setups,
        d \in Durations : ExecuteToolCall(t, n, a, x, d)
  \/ \E t \in Tasks, c \in Setups, x \in Setups, d \in Durations :
        ExecuteCtxResume(t, c, x, d)
  \/ \E t \in Tasks, d \in Durations :
        \E e \in Endings(t) : ExecuteRunResume(t, e, d)
  \/ cancel_tool
  \/ \E r \in Responses : submit_final_response(r)
  \/ export_trace

Next ==
  \/ create_session
  \/ Calls

Spec == Init /\ [][Next]_vars

\* One session driven through the controller and, as the unit tests do,
\* through the session object itself.
NextDirect ==
  \/ nsessions = 0 /\ create_session
  \/ Calls
  \/ \E i \in Sessions, a \in AgentInputs \cap AgentNames :
        DirectSelectAgent(i, a)
  \/ \E i \in Sessions : DirectStartSession(i)
  \/ \E i \in Sessions : DirectCompleteSession(i)
  \/ \E i \in Sessions, e \in DirectEntries : DirectAddHistoryEntry(i, e)

SpecDirect == Init /\ [][NextDirect]_vars

\* A session built entry by entry, as the exporter's unit tests build theirs,
\* and GoldenTraceBuilder(session).build() called on it.
ExportEntries ==
  {UserQuery("q"), UserQuery("q2"), FinalResponse("5"), FinalResponse("6"),
   ToolCall("add", "{a:2,b:3}", 1), ToolCall("query", "{}", 2),
   ToolCall("query", "{}", 1),
   ToolError(1, "ValueError", "bad arg", "Traceback", 50),
   ToolError(2, "RuntimeError", "Unknown error", None, 50)}
    \cup {ToolOutput(1, r, 50) : r \in ExportValues}
Histories == UNION {[1 .. n -> ExportEntries] : n \in 0 .. MaxHistory}

BuiltSession(h) ==
  [select_agent(NewSession(1), "Calc", "Calc", <<>>) EXCEPT
     !.state = COMPLETED, !.history = h]

InitExport ==
  /\ \E h \in Histories :
       sessions = [i \in Sessions |->
                     IF i = 1 THEN BuiltSession(h) ELSE NewSession(i)]
  /\ nsessions = 1
  /\ session = 0
  /\ tool_declarations = {}
  /\ is_running = FALSE
  /\ current_task = 0
  /\ tasks = [t \in Tasks |-> IdleTask]
  /\ next_call_id = 1
  /\ ndirect = 0
  /\ last = Ended(None, NoResult, 0)
  /\ exported = NoDocument
  /\ nselects = 0

DirectBuild(i) ==
  /\ i \in Constructed
  /\ exported' = Document(sessions[i])
  /\ UNCHANGED <<sessions, nsessions, session, tool_declarations, is_running,
                 current_task, tasks, next_call_id, ndirect, last, nselects>>

NextExport == \E i \in Sessions : DirectBuild(i)

SpecExport == InitExport /\ [][NextExport]_vars

\* The controller driven by a caller that issues no operation while
\* another one is still awaiting; cancel_tool is the one call meant for
\* that time.
Quiescent == \A t \in Tasks : tasks[t].pc = "idle"

NextSerial ==
  \/ Quiescent /\ create_session
  \/ Quiescent /\ \E t \in Tasks, a \in AgentInputs : SelectAgentCall(t, a)
  \/ \E t \in Tasks, ok \in BOOLEAN : SelectAgentResume(t, ok)
  \/ Quiescent /\ \E q \in Queries : StartSession(q)
  \/ Quiescent /\ \E t \in Tasks, n \in ToolInputs, a \in Arguments,
                     x \in Setups, d \in Durations :
                     ExecuteToolCall(t, n, a, x, d)
  \/ \E t \in Tasks, c \in Setups, x \in Setups, d \in Durations :
        ExecuteCtxResume(t, c, x, d)
  \/ \E t \in Tasks, d \in Durations :
        \E e \in Endings(t) : ExecuteRunResume(t, e, d)
  \/ cancel_tool
  \/ Quiescent /\ \E r \in Responses : submit_final_response(r)
  \/ Quiescent /\ export_trace

SpecSerial == Init /\ [][NextSerial]_vars

\* ------------------------------------------------------------ properties
History(i) == sessions[i].history
IsTerminal(e) == e.type \in {"tool_output", "tool_error"}
ToolNames(s) == {s.tools[k].name : k \in 1 .. Len(s.tools)}

\* The steps of execute_tool: its call, and the resumptions of its task.
ExecuteToolStep ==
  \/ next_call_id' # next_call_id
  \/ \E t \in Tasks : tasks[t].op = "execute_tool" /\ tasks'[t] # tasks[t]

\* A step that ends task t's execute_tool, or an execute_tool that ends
\* without ever suspending.
ExecuteToolEnds ==
  \/ \E t \in Tasks : tasks[t].op = "execute_tool" /\ tasks'[t].pc = "idle"
  \/ next_call_id' # next_call_id /\ \A t \in Tasks : tasks'[t] = tasks[t]

StateSuccessor(a, b) ==
  \/ a = SELECTING_AGENT /\ b = AWAITING_QUERY
  \/ a = AWAITING_QUERY /\ b = ACTIVE
  \/ a = ACTIVE /\ b = COMPLETED

StateAndHistoryUnchanged ==
  \A i \in Sessions :
    /\ sessions'[i].state = sessions[i].state
    /\ Len(sessions'[i].history) = Len(sessions[i].history)

\* C1: every step leaves each session's state where it is or moves it one
\* place along SELECTING_AGENT -> AWAITING_QUERY -> ACTIVE -> COMPLETED, and
\* no step of execute_tool changes any session's state.
C1_StateChain ==
  [][/\ \A i \in Sessions :
          \/ sessions'[i].state = sessions[i].state
          \/ StateSuccessor(sessions[i].state, sessions'[i].state)
     /\ ExecuteToolStep =>
          \A i \in Sessions : sessions'[i].state = sessions[i].state]_vars

C1_Witness ==
  \E i \in Constructed :
    /\ sessions[i].state = COMPLETED
    /\ \E k \in 1 .. Len(History(i)) : IsTerminal(History(i)[k])

\* C2 (as claimed): with a session in a state an operation is not valid
\* from, the operation fails with StateViolation, and the step leaves every
\* session's state and history length unchanged. Stated by contraposition:
\* a step that changes a state or a history length is not a step of an
\* operation the current session's state does not allow.
C2_WrongStateUnchanged ==
  [][session # 0 =>
       LET st == sessions[session].state
       IN /\ st # SELECTING_AGENT /\ ~StateAndHistoryUnchanged
               => ~(\E t \in Tasks, ok \in BOOLEAN : SelectAgentResume(t, ok))
          /\ st # AWAITING_QUERY /\ ~StateAndHistoryUnchanged
               => ~(\E q \in Queries : StartSession(q))
          /\ st # ACTIVE /\ ~StateAndHistoryUnchanged
               => ~(\E t \in Tasks, n \in ToolInputs, a \in Arguments,
                       x \in Setups, d \in Durations :
                       ExecuteToolCall(t, n, a, x, d))
          /\ st # ACTIVE /\ ~StateAndHistoryUnchanged
               => ~(\E r \in Responses : submit_final_response(r))
          /\ st # COMPLETED /\
               ~(StateAndHistoryUnchanged /\ exported' = exported)
               => ~export_trace]_vars

C2_OthersFailWithStateViolation ==
  session # 0 =>
    LET st == sessions[session].state
    IN /\ st # AWAITING_QUERY =>
            \A q \in Queries : StartSessionOutcome(q) = "StateViolation"
       /\ st # ACTIVE =>
            /\ \A n \in ToolInputs :
                 ExecuteToolCallOutcome(n) = "StateViolation"
            /\ \A r \in Responses :
                 SubmitFinalResponseOutcome(r) = "StateViolation"
       /\ st # COMPLETED => ExportTraceOutcome = "StateViolation"

C3_CompletedIsTerminal ==
  [][\A i \in Sessions :
       sessions[i].state = COMPLETED =>
         /\ sessions'[i].state = COMPLETED
         /\ sessions'[i].history = sessions[i].history]_vars

ToolCallsBefore(h, k, id) ==
  {j \in 1 .. (k - 1) : h[j].type = "tool_call" /\ h[j].call_id = id}
TerminalsAfter(h, k, id) ==
  {j \in (k + 1) .. Len(h) : IsTerminal(h[j]) /\ h[j].call_id = id}

\* C4 (as claimed): in every session's history each ToolOutput or ToolError
\* has exactly one earlier ToolCall with its call_id, no call_id has two
\* terminal entries, and the ToolCalls' call_ids are pairwise distinct.
C4_Correlation ==
  \A i \in Sessions :
    LET h == History(i)
    IN \A k \in 1 .. Len(h) :
         /\ IsTerminal(h[k]) =>
              /\ Cardinality(ToolCallsBefore(h, k, h[k].call_id)) = 1
              /\ TerminalsAfter(h, k, h[k].call_id) = {}
         /\ h[k].type = "tool_call" =>
              ToolCallsBefore(h, k, h[k].call_id) = {}

NoInvocationInFlight == \A t \in Tasks : tasks[t].op # "execute_tool"

\* C5 (as claimed): once no invocation is in flight any more, every ToolCall
\* in a history is followed, in that history, by exactly one terminal entry
\* with its call_id.
C5_EveryCallAnswered ==
  NoInvocationInFlight =>
    \A i \in Sessions :
      LET h == History(i)
      IN \A k \in 1 .. Len(h) :
           h[k].type = "tool_call" =>
             Cardinality(TerminalsAfter(h, k, h[k].call_id)) = 1

\* C6 (as claimed): at most one tool invocation is in progress in the engine.
C6_SingleFlight ==
  Cardinality({t \in Tasks : tasks[t].op = "execute_tool"}) <= 1

\* An ExecutionResult of one of the three shapes execute can build.
WellFormedResult(r) ==
  /\ ~r.none
  /\ \/ r.success /\ ~r.cancelled
     \/ /\ ~r.success /\ r.cancelled
        /\ r.error_message = "Tool execution was cancelled"
     \/ ~r.success /\ ~r.cancelled /\ r.error_type # None

\* C7: an execute_tool never raises to its caller, cancelled or not: it
\* returns an ExecutionResult that is a success, a failure, or
\* success=false with cancelled=true; and it is reported as cancelled only
\* if its cancellation was requested.
C7_CancellationSafety ==
  /\ [](last.kind # None =>
          last.kind = "returned" /\ WellFormedResult(last.result))
  /\ [][ExecuteToolEnds /\ last'.result.cancelled =>
          \E t \in Tasks : tasks[t].cancel_req /\ tasks'[t].pc = "idle"]_vars

C7_Witness ==
  /\ last.kind = "returned"
  /\ last.result.cancelled
  /\ ~last.result.success

\* C8 (as claimed): when an execute_tool has returned the failure of a tool,
\* the result carries the class name of what was raised, and the history
\* that holds the invocation's ToolCall holds, after it, a ToolError with
\* the same call_id and the result's error_type and message.
C8_FailureRecorded ==
  last.kind # None /\ ~last.result.success /\ ~last.result.cancelled =>
    /\ last.kind = "returned"
    /\ last.result.error_type \in {e.type : e \in Exceptions \cup ContextFailures}
    /\ \E i \in Sessions :
         LET h == History(i)
         IN \E k \in 1 .. Len(h) :
              /\ h[k].type = "tool_error"
              /\ h[k].call_id = last.call_id
              /\ h[k].error_type = last.result.error_type
              /\ h[k].error_message = last.result.error_message
              /\ ToolCallsBefore(h, k, last.call_id) # {}

\* C9: the step that ends a failed or cancelled invocation changes no
\* session's state, leaves the engine as it is after construction, and
\* leaves an ACTIVE session accepting execute_tool and
\* submit_final_response as an ACTIVE session does.
C9_UsableAfterError ==
  [][ExecuteToolEnds /\ ~last'.result.success =>
       /\ \A i \in Sessions : sessions'[i].state = sessions[i].state
       /\ ~is_running' /\ current_task' = 0
       /\ sessions'[session'].state = ACTIVE =>
            /\ \A n \in ToolInputs :
                 ExecuteToolCallOutcome(n)' =
                   IF n \in ToolNames(sessions'[session'])
                   THEN "pending" ELSE "NotFound"
            /\ \A r \in Responses : SubmitFinalResponseOutcome(r)' = "ok"]_vars

C9_Witness ==
  /\ last.kind = "returned" /\ ~last.result.success
  /\ session # 0 /\ sessions[session].state = ACTIVE
  /\ Cardinality({k \in 1 .. Len(History(session)) :
                    History(session)[k].type = "tool_error"}) >= 2
  /\ ~is_running

\* C10: on an ACTIVE session execute_tool with a name that is not exactly
\* the name of one of the session's tools fails with NotFound, and the call
\* changes nothing: no ToolCall, no engine activity.
C10_UnknownToolNotFound ==
  /\ [](session # 0 /\ sessions[session].state = ACTIVE =>
          \A n \in ToolInputs :
            n \notin ToolNames(sessions[session]) =>
              ExecuteToolCallOutcome(n) = "NotFound")
  /\ [][\A n \in ToolInputs :
          /\ session # 0 /\ sessions[session].state = ACTIVE
          /\ n \notin ToolNames(sessions[session])
          /\ \E t \in Tasks, a \in Arguments, x \in Setups, d \in Durations :
               ExecuteToolCall(t, n, a, x, d)
          => UNCHANGED <<sessions, is_running, current_task, tasks,
                         next_call_id, last, nselects>>]_vars

C10_Witness ==
  /\ session # 0 /\ sessions[session].state = ACTIVE
  /\ "add" \in ToolNames(sessions[session])
  /\ ExecuteToolCallOutcome("Add") = "NotFound"
  /\ ExecuteToolCallOutcome("missing_tool") = "NotFound"
  /\ History(session) # <<>>

\* C11 (as claimed): a select_agent that fails with NotFound or with
\* StateViolation changes nothing: no session and not the controller's
\* cached tool declarations.  By contraposition: a step that changes a
\* session or the cache is not a select_agent call with an unknown name and
\* not the resumption of a select_agent whose session is no longer in
\* SELECTING_AGENT.
C11_SelectAgentAllOrNothing ==
  [][sessions' # sessions \/ tool_declarations' # tool_declarations =>
       /\ ~(\E t \in Tasks, a \in AgentInputs \ AgentNames :
              SelectAgentCall(t, a))
       /\ SelectAgentResumeOutcome(TRUE) = "StateViolation" =>
            ~(\E t \in Tasks : SelectAgentResume(t, TRUE))]_vars

IsPrefix(a, b) == Len(a) <= Len(b) /\ SubSeq(b, 1, Len(a)) = a

\* C12: every step leaves each session's history as it was or extends it at
\* the end, so the history seen at any point is a prefix of the history seen
\* at any later point.
C12_HistoryAppendOnly ==
  [][\A i \in Sessions : IsPrefix(History(i), History(i)')]_vars

C12_Witness ==
  \E i \in Constructed :
    /\ Len(History(i)) >= 4
    /\ History(i)[1].type = "user_query"
    /\ History(i)[Len(History(i))].type = "final_response"

CountOf(h, ty) == Cardinality({k \in 1 .. Len(h) : h[k].type = ty})

\* C13: in every state reached through the controller, each session's
\* history holds one UserQuery when the session is ACTIVE or COMPLETED and
\* none otherwise, and one FinalResponse when it is COMPLETED and none
\* otherwise.
C13_OneQueryOneResponse ==
  \A i \in Sessions :
    /\ CountOf(History(i), "user_query") =
         IF sessions[i].state \in {ACTIVE, COMPLETED} THEN 1 ELSE 0
    /\ CountOf(History(i), "final_response") =
         IF sessions[i].state = COMPLETED THEN 1 ELSE 0

C13_Witness ==
  \E i, j \in Constructed :
    /\ sessions[i].state = COMPLETED
    /\ CountOf(History(i), "final_response") = 1
    /\ sessions[j].state = ACTIVE
    /\ CountOf(History(j), "user_query") = 1

\* C14: export_trace succeeds exactly when there is a current session and it
\* is COMPLETED; a step produces a document only then, the document is the
\* one built from that session, and the step changes no session.
C14_ExportIffCompleted ==
  /\ [](ExportTraceOutcome = "ok" <=>
          (session # 0 /\ sessions[session].state = COMPLETED))
  /\ [][exported' # exported =>
          /\ session # 0
          /\ sessions[session].state = COMPLETED
          /\ exported' = Document(sessions[session])
          /\ sessions' = sessions]_vars

C14_Witness ==
  /\ ~exported.none
  /\ session # 0
  /\ exported.session_id # session
  /\ sessions[session].state \in {AWAITING_QUERY, ACTIVE}
  /\ ExportTraceOutcome = "StateViolation"

\* C15 (as claimed): a document export_trace produces for the session the
\* previous document was produced for is equal to that previous document,
\* and the exporting step changes no session.
C15_ExportDeterminism ==
  [][/\ (~exported.none /\ ~exported'.none
           /\ exported'.session_id = exported.session_id)
          => exported'.document = exported.document
     /\ exported' # exported => sessions' = sessions]_vars

\* The history the last document was built from, and how many entries of
\* the given types it has up to position j.
ExportedHistory == History(exported.session_id)
PositionAmong(h, j, types) ==
  Cardinality({i \in 1 .. j : h[i].type \in types})
TerminalTypes == {"tool_output", "tool_error"}

\* C16: the document built from any history has one use record per ToolCall,
\* in history order, with the entry's call_id, tool_name and arguments, and
\* one response record per ToolOutput or ToolError, in history order, with
\* the entry's call_id; a ToolError's payload has error = true, the entry's
\* error_type and error_message, and a traceback exactly when the entry has
\* one.
C16_ToolDataFollowsHistory ==
  ~exported.none =>
    LET h == ExportedHistory
        d == exported.document
    IN /\ Len(d.tool_uses) = PositionAmong(h, Len(h), {"tool_call"})
       /\ Len(d.tool_responses) = PositionAmong(h, Len(h), TerminalTypes)
       /\ \A j \in 1 .. Len(h) :
            /\ h[j].type = "tool_call" =>
                 LET u == d.tool_uses[PositionAmong(h, j, {"tool_call"})]
                 IN /\ u.id = h[j].call_id
                    /\ u.name = h[j].tool_name
                    /\ u.args = h[j].arguments
            /\ IsTerminal(h[j]) =>
                 d.tool_responses[PositionAmong(h, j, TerminalTypes)].id =
                   h[j].call_id
            /\ h[j].type = "tool_error" =>
                 LET p == d.tool_responses[
                            PositionAmong(h, j, TerminalTypes)].response
                 IN /\ p.error
                    /\ p.error_type = h[j].error_type
                    /\ p.error_message = h[j].error_message
                    /\ p.has_traceback = (h[j].traceback # None)
                    /\ p.has_traceback => p.traceback = h[j].traceback

C16_Witness ==
  /\ ~exported.none
  /\ Len(exported.document.tool_uses) = 2
  /\ exported.document.tool_uses[1].id # exported.document.tool_uses[2].id
  /\ Len(exported.document.tool_responses) = 1
  /\ Len(ExportedHistory) = 3
  /\ ExportedHistory[3].type = "tool_error"
  /\ ExportedHistory[3].traceback = None

\* C17: the document built from any history has as user_content the content
\* of the first UserQuery and as final_response the content of the last
\* FinalResponse, each as a message of one text part, with the empty text
\* when the history has no such entry; and build is enabled on every
\* session.
C17_MessagesFromHistory ==
  /\ \A i \in Constructed : ENABLED DirectBuild(i)
  /\ ~exported.none =>
       LET h == ExportedHistory
           d == exported.document
           qs == {j \in 1 .. Len(h) : h[j].type = "user_query"}
           fs == {j \in 1 .. Len(h) : h[j].type = "final_response"}
           first == CHOOSE j \in qs : \A k \in qs : j <= k
           final == CHOOSE j \in fs : \A k \in fs : j >= k
       IN /\ d.user_content.role = "user"
          /\ d.final_response.role = "model"
          /\ Len(d.user_content.parts) = 1
          /\ Len(d.final_response.parts) = 1
          /\ d.user_content.parts[1].text =
               IF qs = {} THEN "" ELSE h[first].content
          /\ d.final_response.parts[1].text =
               IF fs = {} THEN "" ELSE h[final].content

C17_Witness ==
  /\ ~exported.none
  /\ exported.document.user_content.parts[1].text = ""
  /\ exported.document.final_response.parts[1].text = "6"
  /\ Len(ExportedHistory) = 3
  /\ ExportedHistory[1] = FinalResponse("6")
  /\ ExportedHistory[2] = FinalResponse("5")
  /\ ExportedHistory[3] = FinalResponse("6")

\* C18: a session in SELECTING_AGENT has no tools, and a step changes a
\* session's tools only by taking it from SELECTING_AGENT to AWAITING_QUERY.
C18_ToolsSetOnce ==
  /\ [](\A i \in Sessions :
          sessions[i].state = SELECTING_AGENT => sessions[i].tools = <<>>)
  /\ [][\A i \in Sessions :
          sessions'[i].tools # sessions[i].tools =>
            /\ sessions[i].state = SELECTING_AGENT
            /\ sessions'[i].state = AWAITING_QUERY]_vars

C18_Witness ==
  /\ session # 0
  /\ sessions[session].state = COMPLETED
  /\ sessions[session].tools = canonical_tools("Calc")
  /\ tool_declarations = Declarations(canonical_tools("Db"))
  /\ ~exported.none

\* C19: while no invocation is in flight the engine holds no task and is not
\* running, so cancel_tool changes nothing: no step taken from such a state
\* that changes anything is a cancel_tool.  A cancellation request is only
\* ever held by an invocation that was awaiting its tool when it was made,
\* so none is left over for the next execute_tool.
C19_CancelWhenIdleIsNoOp ==
  /\ [](NoInvocationInFlight => current_task = 0 /\ ~is_running)
  /\ [](\A t \in Tasks : tasks[t].cancel_req => tasks[t].pc = "run")
  /\ [][NoInvocationInFlight => ~cancel_tool]_vars

C19_Witness ==
  /\ NoInvocationInFlight
  /\ session # 0
  /\ sessions[session].state = ACTIVE
  /\ Len(History(session)) = 5
  /\ History(session)[3].type = "tool_error"
  /\ History(session)[3].error_message = "Tool execution was cancelled"
  /\ History(session)[5].type = "tool_output"
  /\ last.result.success

\* The payload the document holds for the ToolOutput at position j.
PayloadOf(h, j) ==
  exported.document.tool_responses[PositionAmong(h, j, TerminalTypes)].response

\* C20 (as claimed): a tool output is serialized by the first matching rule
\* of: None -> {result: None}; scalar -> {result: value}; list or tuple ->
\* {result: the list}; object with a working structured dump -> the dump;
\* anything else -> {result: its string form}.
C20_ClaimedPayload(r) ==
  IF r.ty = "none" THEN Wrapped(NoneValue)
  ELSE IF r.ty \in ScalarTypes THEN Wrapped(r)
  ELSE IF r.ty = "list" THEN Wrapped(r)
  ELSE IF r.ty = "tuple" THEN Wrapped(Value("list", "[1, 2]"))
  ELSE IF r.ty = "model" THEN TheDict(Value("dict", "{x: 1}"))
  ELSE Wrapped(Value("str", r.v))

C20_SerializationPolicy ==
  ~exported.none =>
    LET h == ExportedHistory
    IN \A j \in 1 .. Len(h) :
         h[j].type = "tool_output" /\ h[j].result.ty # "badmodel" =>
           PayloadOf(h, j) = C20_ClaimedPayload(h[j].result)

\* C20 (amended): as claimed, with two more rules: a dict is the payload
\* itself, unwrapped, and is tried right after None; an object whose
\* structured dump raises is serialized as its string form.
C20_AmendedPayload(r) ==
  IF r.ty = "dict" THEN TheDict(r) ELSE C20_ClaimedPayload(r)

C20_SerializationPolicyAmended ==
  ~exported.none =>
    LET h == ExportedHistory
    IN \A j \in 1 .. Len(h) :
         h[j].type = "tool_output" =>
           PayloadOf(h, j) = C20_AmendedPayload(h[j].result)

C20_Witness ==
  /\ ~exported.none
  /\ Len(ExportedHistory) = 3
  /\ ExportedHistory[1] = ToolOutput(1, Value("dict", "{k: 1}"), 50)
  /\ ExportedHistory[2] = ToolOutput(1, Value("tuple", "(1, 2)"), 50)
  /\ ExportedHistory[3] = ToolOutput(1, Value("badmodel", "B(x=1)"), 50)
  /\ ~exported.document.tool_responses[1].response.wrapped
  /\ exported.document.tool_responses[2].response.value.ty = "list"
  /\ exported.document.tool_responses[3].response.value.ty = "str"

\* C21: for every ToolOutput whose result is a dict, the response of its
\* record in the document is that dict itself: not wrapped under a result
\* key and not turned into a string.
C21_DictExportedUnchanged ==
  ~exported.none =>
    LET h == ExportedHistory
    IN \A j \in 1 .. Len(h) :
         h[j].type = "tool_output" /\ h[j].result.ty = "dict" =>
           /\ ~PayloadOf(h, j).wrapped
           /\ PayloadOf(h, j).value = h[j].result
           /\ PayloadOf(h, j).value.ty = "dict"

C21_Witness ==
  /\ ~exported.none
  /\ Len(ExportedHistory) = 2
  /\ ExportedHistory[1] = ToolCall("add", "{a:2,b:3}", 1)
  /\ ExportedHistory[2] = ToolOutput(1, Value("dict", "{k: 1}"), 50)
  /\ exported.document.tool_responses[1].response.value =
       Value("dict", "{k: 1}")

\* C22 (as claimed): whenever the engine reports is_running, a cancel_tool
\* reaches an invocation in flight: the call can be made and leaves some
\* in-flight invocation holding a cancellation request.
C22_CancelReachesInvocation ==
  is_running =>
    ENABLED (/\ cancel_tool
             /\ \E t \in Tasks :
                  tasks[t].op = "execute_tool" /\ tasks'[t].cancel_req)

\* C23 (as claimed): is_running is true exactly while some invocation has
\* not yet produced its result, and when none is in flight the engine
\* retains no task handle.
C23_IsRunningWhileInFlight ==
  /\ is_running <=> ~NoInvocationInFlight
  /\ NoInvocationInFlight => current_task = 0

\* C24 (as claimed): the step that ends an invocation changes the history
\* of no session other than the one that received the invocation's
\* ToolCall.
C24_TerminalEntryInOwnSession ==
  [][\A t \in Tasks :
       tasks[t].op = "execute_tool" /\ tasks'[t].pc = "idle" =>
         \A i \in Sessions \ {tasks[t].sess} : History(i)' = History(i)]_vars

\* C25 (as claimed): the name of a response record is the tool_name of the
\* first ToolCall before the response's entry that has its call_id, and
\* "unknown" when no ToolCall with that call_id precedes it.
C25_FirstSeenCallNamesResponse ==
  ~exported.none =>
    LET h == ExportedHistory
    IN \A j \in 1 .. Len(h) :
         IsTerminal(h[j]) =>
           LET before == ToolCallsBefore(h, j, h[j].call_id)
               first == CHOOSE i \in before : \A k \in before : i <= k
               record == exported.document.tool_responses[
                           PositionAmong(h, j, TerminalTypes)]
           IN record.name =
                IF before = {} THEN "unknown" ELSE h[first].tool_name

\* The state errors the controller's operations raise on the current
\* session as it is now.
StateErrorsNow ==
  LET s == sessions[session]
  IN (IF SelectAgentResumeOutcome(TRUE) = "StateViolation"
      THEN {SelectAgentStateError(s)} ELSE {})
     \cup (IF \E q \in Queries : StartSessionOutcome(q) = "StateViolation"
           THEN {StartSessionStateError(s)} ELSE {})
     \cup (IF \E n \in ToolInputs :
                ExecuteToolCallOutcome(n) = "StateViolation"
           THEN {ExecuteToolStateError(s)} ELSE {})
     \cup (IF \E r \in Responses :
                SubmitFinalResponseOutcome(r) = "StateViolation"
           THEN {SubmitFinalResponseStateError(s)} ELSE {})
     \cup (IF ExportTraceOutcome = "StateViolation"
           THEN {ExportTraceStateError(s)} ELSE {})

\* C26 (as claimed): every state error an operation raises names the state
\* the operation requires and the state the session is in.
C26_StateErrorNamesBothStates ==
  session # 0 =>
    \A e \in StateErrorsNow :
      /\ e.required \in SessionState
      /\ e.actual = sessions[session].state

\* The invocation a history is still waiting for: the call_id of the
\* execute_tool that recorded its ToolCall in session i and has not ended.
PendingCalls(i) ==
  {tasks[t].call_id : t \in {u \in Tasks : /\ tasks[u].op = "execute_tool"
                                           /\ tasks[u].sess = i}}

\* h[from .. to] is a run of ToolCall entries, each one immediately followed
\* by the terminal entry that carries its call_id.
CallResultPairs(h, from, to) ==
  /\ (to - from + 1) % 2 = 0
  /\ \A k \in from .. to :
       IF (k - from) % 2 = 0
       THEN h[k].type = "tool_call"
       ELSE IsTerminal(h[k]) /\ h[k].call_id = h[k - 1].call_id

\* UserQuery (ToolCall (ToolOutput | ToolError))* FinalResponse?, with the
\* FinalResponse present exactly in COMPLETED and nothing recorded before
\* ACTIVE.  While an invocation is awaiting, its ToolCall is the last entry
\* and the shape is that of the history before it.
HistoryShape(i) ==
  LET h == History(i)
      st == sessions[i].state
      open == IF PendingCalls(i) = {} THEN 0 ELSE 1
      done == IF st = COMPLETED THEN 1 ELSE 0
  IN IF st \in {SELECTING_AGENT, AWAITING_QUERY}
     THEN h = <<>>
     ELSE /\ Len(h) >= 1 + open + done
          /\ h[1].type = "user_query"
          /\ CallResultPairs(h, 2, Len(h) - open - done)
          /\ open = 1 => /\ h[Len(h)].type = "tool_call"
                         /\ PendingCalls(i) = {h[Len(h)].call_id}
          /\ done = 1 => h[Len(h)].type = "final_response"

\* C27: when the caller issues no operation while another is awaiting, every
\* history is UserQuery (ToolCall (ToolOutput | ToolError))* FinalResponse?:
\* empty before ACTIVE, a UserQuery first, every ToolCall immediately
\* followed by the terminal entry with its call_id (the ToolCall of the
\* invocation still awaiting being the only one not yet answered), and a
\* FinalResponse last exactly when the session is COMPLETED.
C27_SerializedHistoryShape ==
  \A i \in 1 .. nsessions : HistoryShape(i)

\* A completed session whose history holds a successful call, a failed or
\* cancelled call, and the final response.
C27_Witness ==
  /\ session # 0
  /\ sessions[session].state = COMPLETED
  /\ Len(History(session)) = 6
  /\ History(session)[3].type = "tool_output"
  /\ History(session)[5].type = "tool_error"

\* C28: the cached tool declarations describe the current session's tools:
\* the cache is empty right after create_session, and in every state each
\* cached declaration is under the name of a tool in the current session's
\* tools list.
C28_CacheDescribesCurrentSession ==
  /\ [](session # 0 =>
          tool_declarations \subseteq ToolNames(sessions[session]))
  /\ [][create_session => tool_declarations' = {}]_vars

\* C30: ensure_adk_session is complete and idempotent: once it has returned
\* for a session, the session's adk_session and adk_session_service are both
\* set, and the session keeps the very same ADK session object from then on.
C30_EnsureAdkSessionIdempotentComplete ==
  /\ [](\A i \in Sessions :
          sessions[i].adk_session # 0 =>
            sessions[i].adk_session_service # None)
  /\ [][\A i \in Sessions :
          sessions[i].adk_session # 0 =>
            sessions'[i].adk_session = sessions[i].adk_session]_vars

\* The terminal entry e says what the ExecutionResult r says.
AgreesWithResult(e, r) ==
  /\ "cancelled" \notin DOMAIN e
  /\ e.duration_ms = r.duration_ms
  /\ IF r.success
     THEN e.type = "tool_output" /\ e.result = r.result
     ELSE /\ e.type = "tool_error"
          /\ e.error_message = r.error_message
          /\ e.error_type = IF r.cancelled THEN "Unknown" ELSE r.error_type
          /\ r.cancelled => e.error_message = "Tool execution was cancelled"

\* The same with the placeholders the controller records for a missing or
\* empty error_type and error_message.
AgreesWithResultAmended(e, r) ==
  /\ "cancelled" \notin DOMAIN e
  /\ e.duration_ms = r.duration_ms
  /\ IF r.success
     THEN e.type = "tool_output" /\ e.result = r.result
     ELSE /\ e.type = "tool_error"
          /\ e.error_type = IF r.error_type \in {None, ""}
                            THEN "Unknown" ELSE r.error_type
          /\ e.error_message = IF r.error_message \in {None, ""}
                               THEN "Unknown error" ELSE r.error_message
          /\ r.cancelled => /\ e.error_type = "Unknown"
                            /\ e.error_message = "Tool execution was cancelled"

\* C29 (as claimed): the step in which execute_tool returns its ExecutionResult appends a
\* terminal entry with the invocation's call_id that agrees with the result:
\* a ToolOutput with the result's value and duration_ms iff success, else a
\* ToolError with the result's error_type, error_message and duration_ms; a
\* cancelled result gives a ToolError of type Unknown with the cancellation
\* message, and no entry has a cancelled field.
C29_TerminalEntryAgreesWithResult ==
  [][ExecuteToolEnds /\ last'.kind = "returned" =>
       \E i \in Sessions :
         LET h == History(i)'
         IN /\ Len(h) > Len(History(i))
            /\ h[Len(h)].call_id = last'.call_id
            /\ AgreesWithResult(h[Len(h)], last'.result)]_vars

\* C29 (amended): as above, except that a failed result whose error_message
\* is empty is recorded with the message Unknown error, as a missing
\* error_type is recorded as Unknown.
C29_TerminalEntryAgreesAmended ==
  [][ExecuteToolEnds /\ last'.kind = "returned" =>
       \E i \in Sessions :
         LET h == History(i)'
         IN /\ Len(h) > Len(History(i))
            /\ h[Len(h)].call_id = last'.call_id
            /\ AgreesWithResultAmended(h[Len(h)], last'.result)]_vars

\* An invocation has returned a failure with an empty message and its
\* ToolError is the last entry of a history.
C29_Witness ==
  /\ last.kind = "returned"
  /\ ~last.result.success
  /\ last.result.error_message = ""
  /\ \E i \in Sessions :
       /\ History(i) # <<>>
       /\ History(i)[Len(History(i))].type = "tool_error"
       /\ History(i)[Len(History(i))].call_id = last.call_id
       /\ History(i)[Len(History(i))].error_message = "Unknown error"

====
